---- MODULE Spec2Model ----
(***************************************************************************)
(* Model of src/app.py: a Streamlit page that builds a FAISS index from an *)
(* uploaded PDF (process_pdf) and answers questions by listing the nearest *)
(* passages (main).  One action is one run of the script main(), started   *)
(* by one widget event.  The per-session state is st.session_state         *)
(* (vectorstore, messages); the process-wide state is the st.cache_resource*)
(* entry of load_embeddings and the temporary files left on disk.          *)
(*                                                                         *)
(* Text is a sequence of one-character strings, so that strip(), len() and *)
(* slicing are computed, not assumed.                                      *)
(***************************************************************************)
EXTENDS Integers, Sequences, FiniteSets, TLC

VARIABLES
    vectorstore,    \* st.session_state.vectorstore: None or a FAISS store
    messages,       \* st.session_state.messages: the transcript
    embeddingsCache,\* st.cache_resource entry of load_embeddings()
    modelLoadable,  \* environment: HuggingFaceEmbeddings(...) would succeed now
    tmpFiles,       \* number of staged temporary files still on disk
    notices,        \* st.success / st.error / st.warning / st.info of the last run
    calls,          \* library calls made by the last run, in order
    uncaught,       \* exception that escaped the last run ("none" if none)
    event           \* the button that started the last run ("none" if none)

vars == <<vectorstore, messages, embeddingsCache, modelLoadable, tmpFiles,
          notices, calls, uncaught, event>>

None == "None"

\* A session_state.vectorstore holding no FAISS store (falsy).
NoStore == [source |-> None, docs |-> <<>>]

Truthy(vs) == vs # NoStore

\* ---------------------------------------------------------------- bounds
MaxTurns == 2       \* question/answer pairs the transcript may hold
MaxTmpFiles == 1    \* staged files that may pile up on disk

\* ------------------------------------------------------- program constants
TopK == 3           \* similarity_search(question, k=3)
DisplayLen == 300   \* if len(content) > 300: content = content[:300] + "..."

\* ------------------------------------------------------------------- text
Spaces(n) == [i \in 1..n |-> " "]

Chars(n, c) == [i \in 1..n |-> IF i % 7 = 3 THEN " " ELSE c]

Text(lead, n, trail, c) == Spaces(lead) \o Chars(n, c) \o Spaces(trail)

Ellipsis == <<".", ".", ".">>

IsSpace(c) == c = " "

RECURSIVE LStrip(_)
LStrip(s) == IF s # <<>> /\ IsSpace(Head(s)) THEN LStrip(Tail(s)) ELSE s

RECURSIVE RStrip(_)
RStrip(s) ==
    IF s # <<>> /\ IsSpace(s[Len(s)]) THEN RStrip(SubSeq(s, 1, Len(s) - 1)) ELSE s

\* str.strip()
Strip(s) == RStrip(LStrip(s))

\* content[:n]
Slice(s, n) == SubSeq(s, 1, IF Len(s) < n THEN Len(s) ELSE n)

\* ----------------------------------------------------------------- inputs
\* The files a user may upload: what PyPDFLoader makes of their bytes.
CorruptPdf == [name |-> "corrupt", readable |-> FALSE, pages |-> <<>>]

EmptyPdf == [name |-> "empty", readable |-> TRUE, pages |-> <<>>]

ScannedPdf == [name |-> "scanned", readable |-> TRUE, pages |-> <<Spaces(3)>>]

ReportPdf ==
    [name |-> "report", readable |-> TRUE,
     pages |-> <<Text(2, DisplayLen + 1, 1, "a"), Text(0, DisplayLen, 0, "b"),
                 Text(1, 12, 0, "c"), Text(0, 9, 2, "d")>>]

MemoPdf ==
    [name |-> "memo", readable |-> TRUE,
     pages |-> <<Spaces(2), Text(1, 12, 1, "m")>>]

Files == {CorruptPdf, EmptyPdf, ScannedPdf, ReportPdf, MemoPdf}

\* What the user may have typed in the question box.
Questions == {"", "q1"}

\* Environment faults a run of process_pdf may meet.
ProcessFaults == {"none", "tempfile", "write", "unlink", "split", "faiss"}

\* ------------------------------------------------------------ collaborators
\* PyPDFLoader(path).load(): the pages, or an exception on unreadable bytes.
LoaderRaises(file) == ~file.readable

\* RecursiveCharacterTextSplitter.split_documents for pages no longer than
\* chunk_size: one stripped chunk per page, blank pages dropped.
RECURSIVE split_documents(_)
split_documents(documents) ==
    IF documents = <<>> THEN <<>>
    ELSE LET chunk == Strip(Head(documents))
         IN  (IF chunk = <<>> THEN <<>> ELSE <<chunk>>)
                 \o split_documents(Tail(documents))

\* FAISS.from_documents(docs, embeddings): raises on an empty list of docs.
FaissRaises(docs, fault) == docs = <<>> \/ fault = "faiss"

from_documents(docs, file) == [source |-> file.name, docs |-> docs]

\* st.success / st.error / st.warning / st.info
Notice(level, text) == [level |-> level, text |-> text]

\* -------------------------------------------------------- load_embeddings
\* @st.cache_resource: the first call's return value is stored and every
\* later call returns it without running the body.
load_embeddings ==
    IF embeddingsCache # "unset"
    THEN [value |-> embeddingsCache, cache |-> embeddingsCache,
          calls |-> <<"load_embeddings">>, notices |-> <<>>]
    ELSE IF modelLoadable
    THEN [value |-> "model", cache |-> "model",
          calls |-> <<"load_embeddings", "HuggingFaceEmbeddings">>,
          notices |-> <<>>]
    ELSE [value |-> None, cache |-> None,
          calls |-> <<"load_embeddings", "HuggingFaceEmbeddings">>,
          notices |-> <<Notice("error", "Error loading embeddings")>>]

\* ------------------------------------------------------------- process_pdf
Status(ok, text, error, pages, chunks) ==
    [ok |-> ok, text |-> text, error |-> error, pages |-> pages, chunks |-> chunks]

Raise(stage, c, tmp) ==
    [exc |-> stage, vectorstore |-> NoStore,
     message |-> Status(FALSE, "", stage, 0, 0), calls |-> c,
     tmpLeft |-> tmp, cache |-> embeddingsCache, notices |-> <<>>]

Return(vs, msg, c, tmp, cache, n) ==
    [exc |-> "none", vectorstore |-> vs, message |-> msg, calls |-> c,
     tmpLeft |-> tmp, cache |-> cache, notices |-> n]

\* The body of the try block, lines 124-155.
process_pdf_body(uploaded_file, fault) ==
    IF fault = "tempfile"
    THEN Raise("tempfile", <<"NamedTemporaryFile">>, 0)
    ELSE IF fault = "write"
    THEN Raise("write", <<"NamedTemporaryFile", "write">>, 1)
    ELSE IF LoaderRaises(uploaded_file)
    THEN Raise("loader", <<"NamedTemporaryFile", "write", "load">>, 1)
    ELSE
    LET documents == uploaded_file.pages
        tmp == IF fault = "unlink" THEN 1 ELSE 0
        c1 == <<"NamedTemporaryFile", "write", "load", "unlink">>
    IN  IF documents = <<>>
        THEN Return(NoStore, Status(FALSE, "PDF could not be read or is empty", "none", 0, 0),
                    c1, tmp, embeddingsCache, <<>>)
        ELSE IF fault = "split"
        THEN Raise("split", c1 \o <<"split_documents">>, tmp)
        ELSE
        LET docs == split_documents(documents)
            emb == load_embeddings
            c2 == c1 \o <<"split_documents">> \o emb.calls
        IN  IF emb.value = None
            THEN Return(NoStore, Status(FALSE, "Failed to load embeddings model", "none", 0, 0),
                        c2, tmp, emb.cache, emb.notices)
            ELSE IF FaissRaises(docs, fault)
            THEN [Raise("faiss", c2 \o <<"from_documents">>, tmp)
                    EXCEPT !.cache = emb.cache]
            ELSE Return(from_documents(docs, uploaded_file),
                        Status(TRUE, "Successfully processed", "none",
                               Len(documents), Len(docs)),
                        c2 \o <<"from_documents">>, tmp, emb.cache, <<>>)

\* Variant: the try block without its except clause.
process_pdf_nocatch(uploaded_file, fault) == process_pdf_body(uploaded_file, fault)

\* except Exception as e: return None, "Error processing PDF: ..."
process_pdf(uploaded_file, fault) ==
    LET r == process_pdf_body(uploaded_file, fault)
    IN  IF r.exc # "none"
        THEN [r EXCEPT !.exc = "none",
                       !.message = Status(FALSE, "Error processing PDF", r.exc, 0, 0)]
        ELSE r

\* ---------------------------------------------------------- main: upload
\* Variant: the result is stored whether or not it is truthy.
process_button_discard(r) ==
    [vectorstore |-> r.vectorstore,
     messages |-> messages,
     notices |-> r.notices \o
                 <<Notice(IF Truthy(r.vectorstore) THEN "success" ELSE "error",
                          r.message.text)>>]

\* Variant: a new store starts a new transcript.
process_button_reset(r) ==
    [vectorstore |-> IF Truthy(r.vectorstore) THEN r.vectorstore ELSE vectorstore,
     messages |-> IF Truthy(r.vectorstore) THEN <<>> ELSE messages,
     notices |-> r.notices \o
                 <<Notice(IF Truthy(r.vectorstore) THEN "success" ELSE "error",
                          r.message.text)>>]

\* Lines 210-215: run process_pdf and keep its store if it is truthy.
process_button(r) ==
    [vectorstore |-> IF Truthy(r.vectorstore) THEN r.vectorstore ELSE vectorstore,
     messages |-> messages,
     notices |-> r.notices \o
                 <<Notice(IF Truthy(r.vectorstore) THEN "success" ELSE "error",
                          r.message.text)>>]

\* Variant: the question section is rendered unconditionally.
QASectionAlways(vs) == TRUE

\* Line 218: the question section is rendered only with a store in the session.
QASection(vs) == Truthy(vs)

\* Lines 277-279: shown instead of the question section.
GettingStarted == <<Notice("info", "Getting Started")>>

\* ------------------------------------------------------------- main: ask
Min(a, b) == IF a < b THEN a ELSE b

Reverse(s) == [i \in 1..Len(s) |-> s[Len(s) + 1 - i]]

Rankings == {"forward", "reverse"}

\* What a search may do: raise, or find some number of passages in some order.
SearchOutcomes ==
    {[raises |-> TRUE, ranking |-> "forward", found |-> 0]} \cup
    {[raises |-> FALSE, ranking |-> r, found |-> n] :
        r \in Rankings, n \in {0, 1, TopK + 1}}

\* vectorstore.similarity_search(question, k): the best `found` passages of
\* the store in the order the ranking gives them, never more than k.
similarity_search(store, ranking, found, k) ==
    LET ranked == IF ranking = "forward" THEN store.docs ELSE Reverse(store.docs)
    IN  SubSeq(ranked, 1, Min(Min(found, k), Len(ranked)))

\* An exception from the search; None has no similarity_search at all.
SearchRaises(store, raises) == raises \/ ~Truthy(store)

\* Variant: the display length of the other revision of the page.
Display500(page_content) ==
    LET content == Strip(page_content)
    IN  IF Len(content) > 500
        THEN Slice(content, 500) \o Ellipsis
        ELSE content

\* Lines 240-242: strip, then cut to the display length.
Display(page_content) ==
    LET content == Strip(page_content)
    IN  IF Len(content) > DisplayLen
        THEN Slice(content, DisplayLen) \o Ellipsis
        ELSE content

\* Lines 238-243: one "Source i" entry per document, in the order given.
FormatAnswer(docs) ==
    [text |-> "Found relevant information",
     sources |-> [i \in 1..Len(docs) |-> Display(docs[i])]]

UserTurn(question) ==
    [role |-> "user", content |-> [text |-> question, sources |-> <<>>]]

AssistantTurn(answer) == [role |-> "assistant", content |-> answer]

\* Variant: the user turn is appended before the search is made.
ask_button_eager(question, raises, docs) ==
    IF raises
    THEN [messages |-> messages \o <<UserTurn(question)>>,
          notices |-> <<Notice("error", "Search error")>>]
    ELSE IF docs # <<>>
    THEN [messages |-> messages \o <<UserTurn(question),
                                     AssistantTurn(FormatAnswer(docs))>>,
          notices |-> <<>>]
    ELSE [messages |-> messages \o <<UserTurn(question)>>,
          notices |-> <<Notice("warning", "No relevant information found")>>]

\* Variant: the assistant turn is appended inside the loop over the documents.
ask_button_per_source(question, raises, docs) ==
    IF raises
    THEN [messages |-> messages, notices |-> <<Notice("error", "Search error")>>]
    ELSE IF docs # <<>>
    THEN [messages |-> messages \o <<UserTurn(question)>> \o
                       [i \in 1..Len(docs) |->
                           AssistantTurn(FormatAnswer(SubSeq(docs, 1, i)))],
          notices |-> <<>>]
    ELSE [messages |-> messages,
          notices |-> <<Notice("warning", "No relevant information found")>>]

\* Lines 231-250: the body run when the ask button is pressed with a question.
ask_button(question, raises, docs) ==
    IF raises
    THEN [messages |-> messages, notices |-> <<Notice("error", "Search error")>>]
    ELSE IF docs # <<>>
    THEN [messages |-> messages \o <<UserTurn(question),
                                     AssistantTurn(FormatAnswer(docs))>>,
          notices |-> <<>>]
    ELSE [messages |-> messages,
          notices |-> <<Notice("warning", "No relevant information found")>>]

\* ----------------------------------------------------------- main: clear
\* Variant: the whole session state is cleared.
clear_button_all ==
    [vectorstore |-> NoStore,
     messages |-> IF messages # <<>> THEN <<>> ELSE messages,
     calls |-> IF messages # <<>> THEN <<"rerun">> ELSE <<>>]

\* Lines 253-255.
clear_button ==
    [vectorstore |-> vectorstore,
     messages |-> IF messages # <<>> THEN <<>> ELSE messages,
     calls |-> IF messages # <<>> THEN <<"rerun">> ELSE <<>>]

\* ------------------------------------------------------------ state machine
\* Lines 165-168, then a first run with no button pressed.
Init ==
    /\ vectorstore = NoStore
    /\ messages = <<>>
    /\ embeddingsCache = "unset"
    /\ modelLoadable \in BOOLEAN
    /\ tmpFiles = 0
    /\ notices = GettingStarted
    /\ calls = <<>>
    /\ uncaught = "none"
    /\ event = "none"

\* A run started by the "Process PDF" button with a file in the uploader.
ProcessClick(uploaded_file, fault) ==
    LET r == process_pdf(uploaded_file, fault)
        s == process_button(r)
    IN  /\ tmpFiles + r.tmpLeft <= MaxTmpFiles
        /\ tmpFiles' = tmpFiles + r.tmpLeft
        /\ embeddingsCache' = r.cache
        /\ calls' = <<"process_pdf">> \o r.calls
        /\ IF r.exc # "none"
           THEN /\ uncaught' = r.exc
                /\ notices' = r.notices
                /\ UNCHANGED <<vectorstore, messages>>
           ELSE /\ uncaught' = "none"
                /\ vectorstore' = s.vectorstore
                /\ messages' = s.messages
                /\ notices' = s.notices \o
                       (IF QASection(s.vectorstore) THEN <<>> ELSE GettingStarted)
        /\ event' = "process"
        /\ UNCHANGED modelLoadable

\* A run started by the "Ask Question" button.
AskClick(question, outcome) ==
    /\ IF QASection(vectorstore)
       THEN IF question # ""
            THEN LET docs == similarity_search(vectorstore, outcome.ranking,
                                                   outcome.found, TopK)
                     s == ask_button(question,
                                     SearchRaises(vectorstore, outcome.raises), docs)
                 IN  /\ Len(s.messages) <= 2 * MaxTurns
                     /\ messages' = s.messages
                     /\ notices' = s.notices
                     /\ calls' = <<"similarity_search">>
            ELSE /\ notices' = <<>>
                 /\ calls' = <<>>
                 /\ UNCHANGED messages
       ELSE /\ notices' = GettingStarted
            /\ calls' = <<>>
            /\ UNCHANGED messages
    /\ uncaught' = "none"
    /\ event' = "ask"
    /\ UNCHANGED <<vectorstore, embeddingsCache, modelLoadable, tmpFiles>>

\* A run started by the "Clear Chat" button.
ClearClick ==
    /\ IF QASection(vectorstore)
       THEN /\ vectorstore' = clear_button.vectorstore
            /\ messages' = clear_button.messages
            /\ calls' = clear_button.calls
            /\ notices' = IF QASection(clear_button.vectorstore)
                          THEN <<>> ELSE GettingStarted
       ELSE /\ notices' = GettingStarted
            /\ calls' = <<>>
            /\ UNCHANGED <<vectorstore, messages>>
    /\ uncaught' = "none"
    /\ event' = "clear"
    /\ UNCHANGED <<embeddingsCache, modelLoadable, tmpFiles>>

\* The environment: the embedding model becomes loadable or stops being so.
EnvChange ==
    /\ modelLoadable' = ~modelLoadable
    /\ UNCHANGED <<vectorstore, messages, embeddingsCache, tmpFiles, notices,
                   calls, uncaught, event>>

Process == \E f \in Files, fault \in ProcessFaults : ProcessClick(f, fault)

Ask == \E q \in Questions, outcome \in SearchOutcomes : AskClick(q, outcome)

Next == Process \/ Ask \/ ClearClick \/ EnvChange

Spec == Init /\ [][Next]_vars

\* ------------------------------------------------------------------ claims
HasNotice(level) == \E i \in 1..Len(notices) : notices[i].level = level

HasNoticeText(text) == \E i \in 1..Len(notices) : notices[i].text = text

Called(name) == \E i \in 1..Len(calls) : calls[i] = name

NoRepeat(s) == \A i, j \in 1..Len(s) : s[i] = s[j] => i = j

ProcessFailed == event = "process" /\ HasNotice("error")

\* A stage of processing fails for this file and fault in the current state.
StageFails(f, fault) ==
    \/ fault \in {"tempfile", "write", "split", "faiss"}
    \/ ~f.readable
    \/ \A i \in 1..Len(f.pages) : Strip(f.pages[i]) = <<>>
    \/ embeddingsCache = None
    \/ embeddingsCache = "unset" /\ ~modelLoadable

\* C1: when process_pdf returns, the temporary file it staged no longer
\* exists, on success and on the failure of any stage: no staged file is
\* ever left on disk between runs.
C1_TempFileDeleted == tmpFiles = 0

\* C2 (as stated): a failed upload+process on a session that holds an index
\* leaves the session with no index.
C2_PriorIndexDiscarded ==
    [][(Process /\ Truthy(vectorstore) /\ ProcessFailed') => ~Truthy(vectorstore')]_vars

\* C2 (amended): a failed upload+process leaves the session's index exactly
\* as it was, so a session that held an index still holds it and the
\* question section is still rendered.
C2_PriorIndexKept ==
    [][(Process /\ ProcessFailed') =>
           (vectorstore' = vectorstore /\ QASection(vectorstore') = QASection(vectorstore))]_vars

C2_Witness == ProcessFailed /\ Truthy(vectorstore) /\ uncaught = "none"

\* C3: a failed model load is never cached: a process run made while the
\* model is loadable never ends with "Failed to load embeddings model".
C3_FailureNotCached ==
    [][(Process /\ modelLoadable) =>
           ~HasNoticeText("Failed to load embeddings model")']_vars

\* C4: with no index in the session an ask run never reaches the search, the
\* transcript is unchanged and the run only shows the getting-started notice.
C4_NoIndexNoSearch ==
    [][(Ask /\ ~Truthy(vectorstore)) =>
           (/\ messages' = messages
            /\ ~Called("similarity_search")'
            /\ notices' = GettingStarted
            /\ ~Truthy(vectorstore'))]_vars

C4_Witness ==
    event = "ask" /\ ~Truthy(vectorstore) /\ embeddingsCache = None /\ calls = <<>>

\* C5: clear on a session with an index empties the transcript and leaves the
\* index as it was, so the question section is still rendered on that index.
C5_ClearKeepsIndex ==
    [][(ClearClick /\ Truthy(vectorstore)) =>
           (/\ messages' = <<>>
            /\ vectorstore' = vectorstore
            /\ QASection(vectorstore'))]_vars

C5_Witness ==
    event = "clear" /\ Called("rerun") /\ messages = <<>> /\ Truthy(vectorstore)

\* C6: an ask whose search raises or finds nothing leaves the transcript and
\* the index as they were and shows only a warning or an error.
C6_FailedAskNoAppend ==
    [][\A q \in Questions \ {""}, o \in SearchOutcomes :
          (AskClick(q, o) /\ Truthy(vectorstore) /\ (o.raises \/ o.found = 0)) =>
              (/\ messages' = messages
               /\ vectorstore' = vectorstore
               /\ Len(notices') = 1
               /\ notices'[1].level = (IF o.raises THEN "error" ELSE "warning"))]_vars

C6_Witness ==
    event = "ask" /\ HasNoticeText("Search error") /\ messages # <<>>

\* C7: whichever stage of processing fails, process_pdf returns no index and
\* an error status instead of raising, no library call is made twice in the
\* run, and a new upload+process run is still possible afterwards.
C7_StageFailureReported ==
    /\ [](ENABLED Process)
    /\ [][\A f \in Files, fault \in ProcessFaults :
             (ProcessClick(f, fault) /\ StageFails(f, fault)) =>
                 LET r == process_pdf(f, fault)
                 IN  /\ r.exc = "none"
                     /\ ~Truthy(r.vectorstore)
                     /\ ~r.message.ok
                     /\ uncaught' = "none"
                     /\ HasNotice("error")'
                     /\ ~HasNotice("success")'
                     /\ NoRepeat(calls')]_vars

C7_Witness ==
    /\ ProcessFailed
    /\ HasNoticeText("Error processing PDF")
    /\ calls[Len(calls)] = "from_documents"
    /\ uncaught = "none"

\* What is shown of a passage: the passage itself if it has at most 300
\* characters, else its first 300 characters and the ellipsis.
IsCutOf(shown, full) ==
    IF Len(full) <= 300
    THEN shown = full
    ELSE /\ Len(shown) = 303
         /\ SubSeq(shown, 1, 300) = SubSeq(full, 1, 300)
         /\ SubSeq(shown, 301, 303) = Ellipsis

\* C8: an ask with a question whose search finds passages appends a user turn
\* holding the question and an assistant turn listing at most 3 of them in
\* search order, each cut to 300 characters; earlier turns and the index stay.
C8_AskAppendsPair ==
    [][\A q \in Questions \ {""}, o \in SearchOutcomes :
          (AskClick(q, o) /\ Truthy(vectorstore) /\ ~o.raises /\ o.found > 0) =>
              LET n == Len(messages)
                  found == similarity_search(vectorstore, o.ranking, o.found, 3)
                  shown == messages'[n + 2].content.sources
              IN  /\ Len(messages') = n + 2
                  /\ SubSeq(messages', 1, n) = messages
                  /\ messages'[n + 1].role = "user"
                  /\ messages'[n + 1].content.text = q
                  /\ messages'[n + 2].role = "assistant"
                  /\ Len(shown) = Len(found)
                  /\ Len(shown) <= 3
                  /\ \A i \in 1..Len(shown) : IsCutOf(shown[i], Strip(found[i]))
                  /\ vectorstore' = vectorstore]_vars

C8_Witness ==
    /\ event = "ask"
    /\ Len(messages) >= 4
    /\ Len(messages[Len(messages)].content.sources) = 3
    /\ \E i \in 1..3 : Len(messages[Len(messages)].content.sources[i]) = 303

\* C9: the transcript always has even length and its roles alternate user,
\* assistant, starting with user.
C9_TurnsAlternate ==
    /\ Len(messages) % 2 = 0
    /\ \A i \in 1..Len(messages) :
           messages[i].role = (IF i % 2 = 1 THEN "user" ELSE "assistant")

C9_Witness ==
    /\ Len(messages) >= 4
    /\ event = "ask"
    /\ HasNotice("warning")

\* C10: an upload+process run, successful or not, never changes the transcript.
C10_ProcessKeepsTranscript == [][Process => messages' = messages]_vars

\* After a successful re-process the transcript still shows a passage that the
\* new index does not hold.
C10_Witness ==
    /\ event = "process"
    /\ HasNotice("success")
    /\ messages # <<>>
    /\ \A j \in 1..Len(vectorstore.docs) :
           Display(vectorstore.docs[j]) # messages[2].content.sources[1]

====
